---------------------------- MODULE Spec2Model ----------------------------
(***************************************************************************)
(* State-machine model of the agricultural dashboard (dashboard .py, held  *)
(* in src/unnamed/part_000) and of the agricultural map                    *)
(* (src/map_visualization.py).                                             *)
(*                                                                         *)
(* A pandas DataFrame is a sequence of rows; a row is a record whose       *)
(* fields are the DataFrame's columns plus "index", the row label pandas   *)
(* keeps through dropna and column selection.  A Bokeh ColumnDataSource    *)
(* is column-oriented, as the JavaScript callbacks see it: a record that   *)
(* maps each column name to a sequence.                                    *)
(***************************************************************************)
EXTENDS Integers, Sequences, FiniteSets, TLC

VARIABLES
    monitoring_data,     \* data_manager.monitoring_data["parcelle_id"]
    features_data,       \* self.features_data (the table prepare_features returned)
    full_yield_source,   \* self.full_yield_source.data
    full_ndvi_source,    \* self.full_ndvi_source.data
    yield_source,        \* self.yield_source.data
    ndvi_source,         \* self.ndvi_source.data
    stress_source,       \* self.stress_source.data
    full_stress_source,  \* self.full_stress_source.data
    prediction_source,   \* prediction_source.data (create_yield_prediction_plot)
    select_value,        \* select_widget.value
    phase,               \* "constructed" | "no_layout" | "laid_out" | "interactive"
    yield_history,       \* data_manager.yield_history
    trend,               \* the parcel and result of the last _calculate_yield_trend call
    map_features,        \* the table prepare_features returns to the map
    risk_metrics,        \* the table calculate_risk_metrics returns
    map,                 \* self.map: whether it exists, and the layers added to it
    heat_data            \* heat_data of the last add_risk_heatmap call

dashVars == <<monitoring_data, features_data, full_yield_source, full_ndvi_source,
              yield_source, ndvi_source, stress_source, full_stress_source,
              prediction_source, select_value, phase>>

mapVars == <<yield_history, trend, map_features, risk_metrics, map, heat_data>>

(***************************************************************************)
(* Bounds and input domains.                                               *)
(***************************************************************************)
\* Largest number of rows of a feature table drawn in Init.
MaxRows == 3

\* pandas' missing value (NaN); no measurement of the model has this value.
NaN == -999

\* Parcel identifiers, listed in their sort order (string order: "A" < "B" < "C").
ParcelNames == <<"A", "B", "C">>

\* Observation dates (epoch timestamps, abstracted to small integers).
Dates == {1, 2}

\* Sample measurements of one observation: yield (t/ha), NDVI (tenths),
\* temperature (degrees C), water stress (hundredths).
Measurements ==
    { [rendement_estime |-> 5,   ndvi |-> 2,   temperature |-> 22, stress_hydrique |-> 34],
      [rendement_estime |-> 6,   ndvi |-> NaN, temperature |-> 20, stress_hydrique |-> 30],
      [rendement_estime |-> NaN, ndvi |-> 3,   temperature |-> -3, stress_hydrique |-> 5] }

\* The measurements of the second parcel's rows.
OtherMeasurements ==
    { [rendement_estime |-> 5,   ndvi |-> 2,   temperature |-> 22, stress_hydrique |-> 34] }

\* Observations <<parcel, date, measurement>> a feature table is drawn from.
\* Parcel "C" is monitored but has no feature row.
Observations ==
    ({"A"} \X Dates \X Measurements) \cup ({"B"} \X Dates \X OtherMeasurements)

\* The selector's value before a selector exists.
NoSelection == "(none)"

\* A data source that has not been created.
NoSource == <<>>

\* Largest number of rows of a feature table of the stress specification.
MaxStressRows == 2

\* Largest number of rows of a yield-history table drawn in Init.
MaxHistory == 3

\* Largest number of rows (parcels) of a risk-metrics table drawn in Init.
MaxRiskRows == 2

\* Largest number of layers the model lets a map collect.
MaxLayers == 4

\* Random coordinate jitter of a heat-map row, in units of 0.0001 degree
\* (np.random.uniform(-0.0001, 0.0001)): the two extremes stand for the draw.
Jitters == {-1, 1}

(***************************************************************************)
(* Generic helpers: ordering of parcel ids, sequences.                     *)
(***************************************************************************)
Rank(p) == CHOOSE i \in 1..Len(ParcelNames) : ParcelNames[i] = p

Range(s) == { s[i] : i \in 1..Len(s) }

\* sorted(x.unique()): the distinct parcel ids of s in ascending order.
RECURSIVE SortedParcels(_)
SortedParcels(S) ==
    IF S = {} THEN <<>>
    ELSE LET m == CHOOSE p \in S : \A q \in S : Rank(p) <= Rank(q)
         IN  <<m>> \o SortedParcels(S \ {m})

\* All sequences over S of length lo..hi.
SeqsOf(S, lo, hi) == UNION { [1..n -> S] : n \in lo..hi }

(***************************************************************************)
(* pandas DataFrame and Bokeh ColumnDataSource.                            *)
(* A DataFrame is [columns |-> set of names, rows |-> sequence of rows].   *)
(***************************************************************************)
\* df[cols]: the listed columns; the row labels (index) are kept.
SelectColumns(df, cols) ==
    [columns |-> cols,
     rows    |-> [i \in 1..Len(df.rows) |->
                    [c \in cols \cup {"index"} |-> df.rows[i][c]]]]

\* Columns that hold text; a parcel id is never missing.
TextColumns == {"parcelle_id"}

\* df.dropna(): the rows with no missing value in any column, in order.
DropNa(df) ==
    LET Complete(r) == \A c \in df.columns \ TextColumns : r[c] # NaN
    IN  [columns |-> df.columns, rows |-> SelectSeq(df.rows, Complete)]

\* ColumnDataSource(df): one sequence per column of df, and the row labels
\* under the key "index".
ColumnDataSource(df) ==
    [c \in df.columns \cup {"index"} |->
        [i \in 1..Len(df.rows) |-> df.rows[i][c]]]

\* ColumnDataSource(data={key: [] for key in df.columns})
EmptyDataSource(df) == [c \in df.columns |-> <<>>]

YieldColumns == {"parcelle_id", "date", "rendement_estime"}
NdviColumns  == {"parcelle_id", "date", "ndvi"}

\* yield_data / ndvi_data of create_data_sources.
YieldData(features) == DropNa(SelectColumns(features, YieldColumns))
NdviData(features)  == DropNa(SelectColumns(features, NdviColumns))

\* get_parcelle_options: sorted(monitoring_data["parcelle_id"].unique())
get_parcelle_options(monitoring) == SortedParcels(Range(monitoring))

(***************************************************************************)
(* The CustomJS callbacks.  `filtered` is source.data before the callback, *)
(* `full_data` is full_source.data, `selected` is select.value.            *)
(***************************************************************************)
\* Faulty variant of MatchingIndices: the parcel test is dropped, every row matches.
MatchingIndicesAll(full_data, selected, i) ==
    [j \in 1..(Len(full_data["parcelle_id"]) - i + 1) |-> i + j - 1]

\* for (i = 0; i < full_data['parcelle_id'].length; i++)
\*     if (full_data['parcelle_id'][i] === selected) indices.push(i)
RECURSIVE MatchingIndices(_, _, _)
MatchingIndices(full_data, selected, i) ==
    IF i > Len(full_data["parcelle_id"]) THEN <<>>
    ELSE (IF full_data["parcelle_id"][i] = selected THEN <<i>> ELSE <<>>)
         \o MatchingIndices(full_data, selected, i + 1)

\* Array.prototype.sort with the comparator date[a] - date[b]: a stable sort,
\* written as insertion of each index behind the ones whose date is not later.
RECURSIVE InsertByDate(_, _, _)
InsertByDate(sorted, i, dates) ==
    IF sorted = <<>> THEN <<i>>
    ELSE IF dates[Head(sorted)] - dates[i] <= 0
         THEN <<Head(sorted)>> \o InsertByDate(Tail(sorted), i, dates)
         ELSE <<i>> \o sorted

RECURSIVE SortIndicesByDate(_, _)
SortIndicesByDate(indices, dates) ==
    IF indices = <<>> THEN <<>>
    ELSE InsertByDate(SortIndicesByDate(SubSeq(indices, 1, Len(indices) - 1), dates),
                      indices[Len(indices)], dates)

\* Faulty variant of ResetColumns: the previous contents are kept, so a callback appends.
ResetColumnsKeep(filtered) == filtered

\* filtered[key] = []  (for every key of filtered)
ResetColumns(filtered) == [key \in DOMAIN filtered |-> <<>>]

\* for (let i of indices) filtered[key].push(full_data[key][i])
PushRows(filtered, full_data, indices) ==
    [key \in DOMAIN filtered |->
        filtered[key] \o [j \in 1..Len(indices) |-> full_data[key][indices[j]]]]

\* Faulty variant of YieldCallback: the indices are not sorted by date.
YieldCallbackUnsorted(filtered, full_data, selected) ==
    PushRows(ResetColumns(filtered), full_data,
             MatchingIndices(full_data, selected, 1))

\* The yield-history callback: reset, filter by parcel, sort by date, fill.
YieldCallback(filtered, full_data, selected) ==
    LET indices == MatchingIndices(full_data, selected, 1)
        ordered == SortIndicesByDate(indices, full_data["date"])
    IN  PushRows(ResetColumns(filtered), full_data, ordered)

\* The NDVI callback: reset, then push every matching row in table order.
NdviCallback(filtered, full_data, selected) ==
    PushRows(ResetColumns(filtered), full_data,
             MatchingIndices(full_data, selected, 1))

(***************************************************************************)
(* IEEE-754 binary64 values of the water-stress column.                    *)
(* A stress value is read from a decimal with two places, h/100.  The      *)
(* double nearest to it is exactly (h * 2^60 + e) / (100 * 2^60) for a     *)
(* small integer e, its rounding error; the model keeps a double as        *)
(* [c |-> h, e |-> e].  Since |e| is far below 2^60, two such values       *)
(* compare as the pairs (c, e) do, and an integer multiple k of one is     *)
(* exactly (k*c, k*e).                                                     *)
(***************************************************************************)
\* Rounding error of the double nearest to h/100, in units of 1/(100 * 2^60).
DoubleError(h) ==
    CASE h = -30 -> 1280   [] h = -20 -> -1280  [] h = -10 -> -640
      [] h = -5  -> -320   [] h = 0   -> 0      [] h = 5   -> 320
      [] h = 10  -> 640    [] h = 20  -> 1280   [] h = 30  -> -1280
      [] h = 34  -> 2816   [] h = 40  -> 2560   [] h = 50  -> 0
      [] h = 60  -> -2560  [] h = 70  -> -5120  [] h = 80  -> 5120
      [] h = 90  -> 2560   [] h = 100 -> 0

\* The double a decimal h/100 is parsed to.
Double(h) == [c |-> h, e |-> DoubleError(h)]

\* x <= y on exact values.
DoubleLeq(x, y) == x.c < y.c \/ (x.c = y.c /\ x.e <= y.e)

\* The exact (unrounded) product k * y of an integer and a double.
Times(k, y) == [c |-> k * y.c, e |-> k * y.e]

\* x // y for y > 0 (numpy floor_divide): the integer k with k*y <= x < (k+1)*y,
\* taken on the exact values of the two doubles.
FloorDivide(x, y) ==
    CHOOSE k \in -20..20 : DoubleLeq(Times(k, y), x) /\ ~DoubleLeq(Times(k + 1, y), x)

\* k * 0.1 rounded to the nearest double (the product of the bin number and
\* the double 0.1), e.g. 3 * 0.1 = 0.30000000000000004.
TimesTenth(k) ==
    [c |-> 10 * k,
     e |-> CASE k = -4 -> -2560 [] k = -3 -> -5120 [] k = -2 -> -1280
             [] k = -1 -> -640  [] k = 0  -> 0     [] k = 1  -> 640
             [] k = 2  -> 1280  [] k = 3  -> 5120  [] k = 4  -> 2560
             [] k = 5  -> 0     [] k = 6  -> 10240 [] k = 7  -> 7680
             [] k = 8  -> 5120  [] k = 9  -> 2560  [] k = 10 -> 0]

\* (temperature // 5) * 5; temperatures are whole degrees, exact in binary64.
TempBin(temperature) == (temperature \div 5) * 5

\* (stress_hydrique // 0.1) * 0.1
StressBin(stress_hydrique) == TimesTenth(FloorDivide(Double(stress_hydrique), Double(10)))

\* features_data['temp_bin'] = ...; features_data['stress_bin'] = ...
\* (the two columns are added to the table itself)
WithBins(features) ==
    [columns |-> features.columns \cup {"temp_bin", "stress_bin"},
     rows    |-> [i \in 1..Len(features.rows) |->
                    [c \in DOMAIN features.rows[i] \cup {"temp_bin", "stress_bin"} |->
                        IF c = "temp_bin" THEN TempBin(features.rows[i]["temperature"])
                        ELSE IF c = "stress_bin"
                             THEN StressBin(features.rows[i]["stress_hydrique"])
                             ELSE features.rows[i][c]]]]

\* Group key of a row, and the order groupby lists the keys in.
BinKey(r) == <<r["parcelle_id"], r["temp_bin"], r["stress_bin"]>>

KeyBefore(a, b) ==
    \/ Rank(a[1]) < Rank(b[1])
    \/ a[1] = b[1] /\ a[2] < b[2]
    \/ a[1] = b[1] /\ a[2] = b[2] /\ DoubleLeq(a[3], b[3])

\* groupby([...]).size().reset_index(name='count'): one row per distinct key,
\* in key order, labelled 0, 1, 2, ...; count is the size of the group.
RECURSIVE GroupRows(_, _, _)
GroupRows(rows, K, label) ==
    IF K = {} THEN <<>>
    ELSE LET m == CHOOSE a \in K : \A b \in K : KeyBefore(a, b)
         IN  <<[index       |-> label,
                parcelle_id |-> m[1],
                temp_bin    |-> m[2],
                stress_bin  |-> m[3],
                count       |-> Cardinality({ i \in 1..Len(rows) : BinKey(rows[i]) = m })]>>
             \o GroupRows(rows, K \ {m}, label + 1)

GroupSizes(binned) ==
    [columns |-> {"parcelle_id", "temp_bin", "stress_bin", "count"},
     rows    |-> GroupRows(binned.rows,
                           { BinKey(binned.rows[i]) : i \in 1..Len(binned.rows) }, 0)]

\* Faulty variant of MaxCount: the first bin's count is taken for the maximum.
MaxCountFirst(rows) == rows[1]["count"]

\* stress_matrix['count'].max()
RECURSIVE MaxCount(_)
MaxCount(rows) ==
    IF Len(rows) = 1 THEN rows[1]["count"]
    ELSE LET m == MaxCount(Tail(rows))
         IN  IF rows[1]["count"] >= m THEN rows[1]["count"] ELSE m

RECURSIVE Gcd(_, _)
Gcd(a, b) == IF b = 0 THEN a ELSE Gcd(b, a % b)

\* The quotient a / b of two positive counts, as a fraction in lowest terms.
Quotient(a, b) == [num |-> a \div Gcd(a, b), den |-> b \div Gcd(a, b)]

\* stress_matrix['normalized_count'] = stress_matrix['count'] / max_count
DivideCounts(rows, max_count) ==
    [j \in 1..Len(rows) |->
        [c \in DOMAIN rows[j] \cup {"normalized_count"} |->
            IF c = "normalized_count" THEN Quotient(rows[j]["count"], max_count)
            ELSE rows[j][c]]]

Normalized(matrix) ==
    [columns |-> matrix.columns \cup {"normalized_count"},
     rows    |-> IF matrix.rows = <<>> THEN <<>>
                 ELSE DivideCounts(matrix.rows, MaxCount(matrix.rows))]

\* The stress matrix create_stress_matrix builds from the binned table.
StressMatrix(binned) == Normalized(GroupSizes(binned))

\* The stress-matrix callback: three columns are emptied and refilled, the
\* source's other columns are left as they are.
StressCallback(filtered, data, selected) ==
    LET indices == MatchingIndices(data, selected, 1)
        Take(key) == <<>> \o [j \in 1..Len(indices) |-> data[key][indices[j]]]
    IN  [filtered EXCEPT !["temp_bin"]         = Take("temp_bin"),
                         !["stress_bin"]       = Take("stress_bin"),
                         !["normalized_count"] = Take("normalized_count")]

\* Faulty variant of MissingStressInput: only the lack of both columns counts.
MissingStressInputBoth(features) ==
    "temperature" \notin features.columns /\ "stress_hydrique" \notin features.columns

\* 'temperature' not in features_data.columns
\*     or 'stress_hydrique' not in features_data.columns
MissingStressInput(features) ==
    "temperature" \notin features.columns \/ "stress_hydrique" \notin features.columns

\* features_data['temp_bin'] = (features_data['temperature'] // 5) * 5
WithTempBin(features) ==
    [columns |-> features.columns \cup {"temp_bin"},
     rows    |-> [i \in 1..Len(features.rows) |->
                    [c \in DOMAIN features.rows[i] \cup {"temp_bin"} |->
                        IF c = "temp_bin" THEN TempBin(features.rows[i]["temperature"])
                        ELSE features.rows[i][c]]]]

\* What create_stress_matrix leaves behind when it returns None: the table
\* as it is by then, and no stress source.
NoStressPlot(features) ==
    [features_data |-> features, stress_source |-> NoSource,
     full_stress_source |-> NoSource, plot |-> FALSE]

\* The data sources create_stress_matrix builds from the binned table.
StressPlot(binned, stress_matrix) ==
    [features_data |-> binned, stress_source |-> ColumnDataSource(stress_matrix),
     full_stress_source |-> ColumnDataSource(stress_matrix), plot |-> TRUE]

\* create_stress_matrix: the table and the stress sources it leaves, and
\* whether it returns a plot.  With a column missing it returns None at
\* once; a KeyError raised by one of the two bin assignments would be caught
\* by the except clause, after the assignments before it.
CreateStressMatrix(features) ==
    IF MissingStressInput(features) THEN NoStressPlot(features)
    ELSE IF "temperature" \notin features.columns THEN NoStressPlot(features)
    ELSE IF "stress_hydrique" \notin features.columns
         THEN NoStressPlot(WithTempBin(features))
    ELSE LET binned == WithBins(features)
         IN  StressPlot(binned, StressMatrix(binned))

(***************************************************************************)
(* The yield-prediction callback.  Math.random() is a draw U in [0, 1),    *)
(* kept in thousandths; a prediction is an exact fraction.                 *)
(***************************************************************************)
\* Sample draws of Math.random(), in thousandths: 0 and 0.999.
RandomDraws == {0, 999}

\* ColumnDataSource(data={"date": [], "actual_yield": [], "predicted_yield": []})
EmptyPredictionSource == [date |-> <<>>, actual_yield |-> <<>>, predicted_yield |-> <<>>]

\* Faulty variant of Prediction: the draw is not centred, 1 + 0.05 * U.
PredictionUncentred(actual_yield, draw) ==
    [num |-> actual_yield * (20000 + draw), den |-> 20000]

\* rendement_estime * (1 + 0.05 * (Math.random() - 0.5)), for the draw
\* U = draw/1000: rendement_estime * (20000 + draw - 500) / 20000.
Prediction(actual_yield, draw) ==
    [num |-> actual_yield * (20000 + draw - 500), den |-> 20000]

\* The prediction callback: the three columns are emptied, then every row of
\* the selected parcel gives its date, its yield and a prediction made with
\* the row's draw.
PredictionCallback(filtered, full_data, selected, draws) ==
    LET indices == MatchingIndices(full_data, selected, 1)
    IN  [filtered EXCEPT
            !["date"] = [j \in 1..Len(indices) |-> full_data["date"][indices[j]]],
            !["actual_yield"] =
                [j \in 1..Len(indices) |-> full_data["rendement_estime"][indices[j]]],
            !["predicted_yield"] =
                [j \in 1..Len(indices) |->
                    Prediction(full_data["rendement_estime"][indices[j]], draws[j])]]

(***************************************************************************)
(* Floating-point quotients of the map, kept exactly as fractions in       *)
(* lowest terms with a positive denominator; 0/0 is NaN, as in numpy.      *)
(***************************************************************************)
Abs(n) == IF n < 0 THEN -n ELSE n

NaNFraction == [num |-> 0, den |-> 0]

Fraction(n, d) ==
    IF d = 0 THEN NaNFraction
    ELSE LET g == Gcd(Abs(n), Abs(d))
             sign == IF d < 0 THEN -1 ELSE 1
         IN  [num |-> sign * (n \div g), den |-> sign * (d \div g)]

IsNaN(x) == x.den = 0

Whole(n) == [num |-> n, den |-> 1]

Plus(x, y) ==
    IF IsNaN(x) \/ IsNaN(y) THEN NaNFraction
    ELSE Fraction(x.num * y.den + y.num * x.den, x.den * y.den)

Minus(x, y) == Plus(x, [num |-> -y.num, den |-> y.den])

Mult(x, y) ==
    IF IsNaN(x) \/ IsNaN(y) THEN NaNFraction
    ELSE Fraction(x.num * y.num, x.den * y.den)

Divide(x, y) ==
    IF IsNaN(x) \/ IsNaN(y) THEN NaNFraction
    ELSE Fraction(x.num * y.den, x.den * y.num)

RECURSIVE SumSeq(_)
SumSeq(s) == IF s = <<>> THEN 0 ELSE Head(s) + SumSeq(Tail(s))

(***************************************************************************)
(* AgriculturalMap._calculate_yield_trend.  A row of yield_history is      *)
(* [parcelle_id, date |-> [year, month], rendement_estime].                *)
(***************************************************************************)
\* yield_history[yield_history['parcelle_id'] == parcelle_id].copy()
ParcelHistory(history, parcelle_id) ==
    LET Mine(r) == r.parcelle_id = parcelle_id
    IN  SelectSeq(history, Mine)

\* ph['rendement_estime'].nunique()
NUnique(ph) == Cardinality({ ph[i].rendement_estime : i \in 1..Len(ph) })

\* ph['date'] = ph['date'].dt.year
ToYear(ph) == [i \in 1..Len(ph) |-> [ph[i] EXCEPT !.date = ph[i].date.year]]

\* Faulty variant of DropDuplicatesByDate: no row is removed.
DropDuplicatesNone(ph) == ph

\* ph.drop_duplicates(subset=['date']): the first row of each date is kept.
DropDuplicatesByDate(ph) ==
    LET keep == { i \in 1..Len(ph) : \A j \in 1..(i - 1) : ph[j].date # ph[i].date }
        Kept(i) == i \in keep
        positions == SelectSeq([i \in 1..Len(ph) |-> i], Kept)
    IN  [k \in 1..Len(positions) |-> ph[positions[k]]]

\* .sort_values(by='date'): rows in ascending date order (the dates of the
\* rows sorted here are distinct).
RECURSIVE SortByDate(_)
SortByDate(ph) ==
    IF ph = <<>> THEN <<>>
    ELSE LET i == CHOOSE a \in 1..Len(ph) : \A b \in 1..Len(ph) : ph[a].date <= ph[b].date
         IN  <<ph[i]>> \o SortByDate(SubSeq(ph, 1, i - 1) \o SubSeq(ph, i + 1, Len(ph)))

\* LinearRegression().fit(X, y) with one predictor: X and y are centred, the
\* coefficient is the least-squares solution of the centred system (the
\* minimum-norm one, 0, when every centred x is 0) and the intercept is
\* mean(y) - coef * mean(x).
LinearRegression(X, y) ==
    LET n     == Len(X)
        xc    == [i \in 1..n |-> n * X[i] - SumSeq(X)]   \* n * (x - mean(x))
        yc    == [i \in 1..n |-> n * y[i] - SumSeq(y)]   \* n * (y - mean(y))
        sxy   == SumSeq([i \in 1..n |-> xc[i] * yc[i]])
        sxx   == SumSeq([i \in 1..n |-> xc[i] * xc[i]])
        coef  == IF sxx = 0 THEN Whole(0) ELSE Fraction(sxy, sxx)
    IN  [coef      |-> coef,
         intercept |-> Minus(Fraction(SumSeq(y), n), Mult(coef, Fraction(SumSeq(X), n)))]

ZeroTrend == [slope |-> Whole(0), intercept |-> Whole(0), variation_moyenne |-> Whole(0)]

\* _calculate_yield_trend(parcelle_id)
CalculateYieldTrend(history, parcelle_id) ==
    LET ph0 == ParcelHistory(history, parcelle_id)
    IN  IF ph0 = <<>> \/ NUnique(ph0) < 2 THEN ZeroTrend
        ELSE LET ph    == SortByDate(DropDuplicatesByDate(ToYear(ph0)))
                 X     == [i \in 1..Len(ph) |-> ph[i].date]
                 y     == [i \in 1..Len(ph) |-> ph[i].rendement_estime]
                 model == LinearRegression(X, y)
                 mean  == Fraction(SumSeq(y), Len(y))
             IN  [slope             |-> model.coef,
                  intercept         |-> model.intercept,
                  variation_moyenne |-> IF mean.num # 0 THEN Divide(model.coef, mean)
                                        ELSE Whole(0)]

NoTrend == [parcelle_id |-> NoSelection, result |-> ZeroTrend]

(***************************************************************************)
(* AgriculturalMap.add_risk_heatmap.  Coordinates are in units of 0.0001   *)
(* degree; a row of map_features is [parcelle_id, latitude, longitude], a  *)
(* row of risk_metrics is [parcelle_id, avg_risk_index].                   *)
(***************************************************************************)
\* pd.merge(risk_metrics, features[['parcelle_id','latitude','longitude']],
\*          on='parcelle_id', how='left'): every risk row with every feature
\* row of its parcel, or once with missing coordinates when it has none.
RECURSIVE LeftMerge(_, _)
LeftMerge(risk, features) ==
    IF risk = <<>> THEN <<>>
    ELSE LET r       == Head(risk)
             Mine(f) == f.parcelle_id = r.parcelle_id
             matches == SelectSeq(features, Mine)
         IN  (IF matches = <<>>
              THEN <<[parcelle_id |-> r.parcelle_id, avg_risk_index |-> r.avg_risk_index,
                      latitude |-> NaN, longitude |-> NaN]>>
              ELSE [k \in 1..Len(matches) |->
                      [parcelle_id |-> r.parcelle_id, avg_risk_index |-> r.avg_risk_index,
                       latitude |-> matches[k].latitude,
                       longitude |-> matches[k].longitude]])
             \o LeftMerge(Tail(risk), features)

\* merged_data.dropna(subset=['latitude', 'longitude', 'avg_risk_index'])
HeatmapRows(risk, features) ==
    LET Complete(r) == r.latitude # NaN /\ r.longitude # NaN /\ r.avg_risk_index # NaN
    IN  SelectSeq(LeftMerge(risk, features), Complete)

\* heatmap_data['avg_risk_index'].min() / .max()
MinRisk(rows) ==
    CHOOSE m \in { rows[i].avg_risk_index : i \in 1..Len(rows) } :
        \A i \in 1..Len(rows) : m <= rows[i].avg_risk_index

MaxRisk(rows) ==
    CHOOSE m \in { rows[i].avg_risk_index : i \in 1..Len(rows) } :
        \A i \in 1..Len(rows) : m >= rows[i].avg_risk_index

\* 0.1 + (value - min_risk) / (max_risk - min_risk) * 0.9
NormalizedRisk(value, min_risk, max_risk) ==
    Plus(Fraction(1, 10),
         Mult(Divide(Whole(value - min_risk), Whole(max_risk - min_risk)),
              Fraction(9, 10)))

\* heat_data: [latitude, longitude, normalized_risk] of every heat-map row,
\* the coordinates moved by the random jitter drawn for the row.
HeatData(rows, jitter_lat, jitter_lon) ==
    [i \in 1..Len(rows) |->
        [latitude        |-> rows[i].latitude + jitter_lat[i],
         longitude       |-> rows[i].longitude + jitter_lon[i],
         normalized_risk |-> NormalizedRisk(rows[i].avg_risk_index,
                                            MinRisk(rows), MaxRisk(rows))]]

NoMap == [initialized |-> FALSE, layers |-> <<>>]

\* Faulty variant of MapIsNone: the test is left out.
MapIsNoneNever(m) == FALSE

\* self.map is None
MapIsNone(m) == ~m.initialized

\* The map side before any call on the map, for given provider tables.
MapConstructed(history, features, risk) ==
    /\ yield_history = history
    /\ trend = NoTrend
    /\ map_features = features
    /\ risk_metrics = risk
    /\ map = NoMap
    /\ heat_data = <<>>

(***************************************************************************)
(* AgriculturalMap.add_yield_history_layer, add_current_ndvi_layer and the *)
(* popups.  A feature row of these layers carries, besides the             *)
(* coordinates, date, culture, rendement_estime and ndvi.  A date is a     *)
(* month's timestamp written yyyymm, or a plain year number (below 10000). *)
(* Something added to the map is a record with a field kind.               *)
(***************************************************************************)
\* features.columns (every row of a table has the table's columns).
MapColumns(features) == IF features = <<>> THEN {} ELSE DOMAIN features[1]

\* pd.to_datetime(date).dt.year; a plain number is read as nanoseconds
\* since 1970.
YearOf(date) == IF date < 10000 THEN 1970 ELSE date \div 100

\* f"{date}": a number prints as it is, a timestamp as 2020-06-01 00:00:00.
DateText(date) ==
    IF date < 10000 THEN ToString(date)
    ELSE ToString(date \div 100) \o "-"
         \o (IF date % 100 < 10 THEN "0" ELSE "") \o ToString(date % 100)
         \o "-01 00:00:00"

\* if 'annee' not in features.columns:
\*     features['annee'] = pd.to_datetime(features['date']).dt.year
WithAnnee(features) ==
    IF "annee" \in MapColumns(features) THEN features
    ELSE [i \in 1..Len(features) |->
            [c \in DOMAIN features[i] \cup {"annee"} |->
                IF c = "annee" THEN YearOf(features[i].date) ELSE features[i][c]]]

\* The group of a parcel in features.groupby('parcelle_id').
GroupOf(features, parcelle_id) ==
    LET Mine(r) == r.parcelle_id = parcelle_id
    IN  SelectSeq(features, Mine)

\* group[column].mean()
Mean(group, column) ==
    Fraction(SumSeq([i \in 1..Len(group) |-> group[i][column]]), Len(group))

\* Bounds of a latitude and of a longitude, in units of 0.0001 degree.
MaxLatitude == 900000
MaxLongitude == 1800000

\* Faulty variant of ValidCoordinates: the two bounds are exchanged.
ValidCoordinatesSwapped(lat, lon) ==
    /\ -MaxLongitude * lat.den <= lat.num /\ lat.num <= MaxLongitude * lat.den
    /\ -MaxLatitude * lon.den <= lon.num /\ lon.num <= MaxLatitude * lon.den

\* -90 <= lat <= 90 and -180 <= lon <= 180
ValidCoordinates(lat, lon) ==
    /\ -MaxLatitude * lat.den <= lat.num /\ lat.num <= MaxLatitude * lat.den
    /\ -MaxLongitude * lon.den <= lon.num /\ lon.num <= MaxLongitude * lon.den

\* Faulty variant of DropDuplicatesByCultureDate: duplicates by date alone.
DropDuplicatesCultureIgnored(history) ==
    LET keep == { i \in 1..Len(history) :
                    \A j \in 1..(i - 1) : history[j].date # history[i].date }
        Kept(i) == i \in keep
        positions == SelectSeq([i \in 1..Len(history) |-> i], Kept)
    IN  [k \in 1..Len(positions) |-> history[positions[k]]]

\* history.drop_duplicates(subset=['culture', 'date']): the first row of each
\* (culture, date) pair is kept.
DropDuplicatesByCultureDate(history) ==
    LET keep == { i \in 1..Len(history) :
                    \A j \in 1..(i - 1) :
                        \/ history[j].culture # history[i].culture
                        \/ history[j].date # history[i].date }
        Kept(i) == i \in keep
        positions == SelectSeq([i \in 1..Len(history) |-> i], Kept)
    IN  [k \in 1..Len(positions) |-> history[positions[k]]]

\* .sort_values(by='date', ascending=False): rows in descending date order;
\* rows of the same date keep their order (pandas sorts the reversed table
\* ascending and reverses the result; a table this short is sorted by
\* insertion).
RECURSIVE SortByDateDescending(_)
SortByDateDescending(history) ==
    IF history = <<>> THEN <<>>
    ELSE LET i == CHOOSE a \in 1..Len(history) :
                     \A b \in 1..Len(history) :
                         \/ history[a].date > history[b].date
                         \/ history[a].date = history[b].date /\ a <= b
         IN  <<history[i]>>
             \o SortByDateDescending(SubSeq(history, 1, i - 1)
                                     \o SubSeq(history, i + 1, Len(history)))

\* _format_recent_crops(history): [] when the ValueError is raised and caught.
FormatRecentCrops(history) ==
    IF history = <<>> \/ ~({"culture", "date"} \subseteq MapColumns(history)) THEN <<>>
    ELSE LET sorted == SortByDateDescending(DropDuplicatesByCultureDate(history))
         IN  [i \in 1..Len(sorted) |->
                DateText(sorted[i].date) \o ": " \o sorted[i].culture]

\* _create_yield_popup(history, mean_yield, trend): what the HTML shows, in
\* its order: the parcel, the mean yield, the trend, the recent crops and
\* the yield history (one item {date}: {rendement_estime} per row).
CreateYieldPopup(history, mean_yield, parcel_trend) ==
    LET unique_history == SortByDate(DropDuplicatesByDate(history))
    IN  [parcelle_id  |-> history[1].parcelle_id,
         mean_yield   |-> mean_yield,
         slope        |-> parcel_trend.slope,
         intercept    |-> parcel_trend.intercept,
         variation    |-> parcel_trend.variation_moyenne,
         recent_crops |-> FormatRecentCrops(history),
         history      |-> [i \in 1..Len(unique_history) |->
                             [year        |-> unique_history[i].date,
                              yield_value |-> unique_history[i].rendement_estime]]]

\* for parcelle_id, group in grouped: ... (groups in the order of their keys)
\* A parcel with invalid mean coordinates is skipped and the loop continues.
RECURSIVE YieldMarkers(_, _, _)
YieldMarkers(features, history, parcels) ==
    IF parcels = <<>> THEN <<>>
    ELSE LET parcelle_id == Head(parcels)
             group       == GroupOf(features, parcelle_id)
             mean_yield  == Mean(group, "rendement_estime")
             parcel_trend == CalculateYieldTrend(history, parcelle_id)
             lat         == Mean(group, "latitude")
             lon         == Mean(group, "longitude")
         IN  (IF ValidCoordinates(lat, lon)
              THEN <<[kind        |-> "CircleMarker",
                      layer       |-> "yield_history",
                      parcelle_id |-> parcelle_id,
                      location    |-> <<lat, lon>>,
                      popup       |-> CreateYieldPopup(group, mean_yield, parcel_trend)]>>
              ELSE <<>>)
             \o YieldMarkers(features, history, Tail(parcels))

\* _create_ndvi_popup(row)
CreateNdviPopup(r) ==
    [parcelle_id |-> r.parcelle_id, latitude |-> r.latitude,
     longitude |-> r.longitude, ndvi |-> r.ndvi]

\* for _, row in features.iterrows(): one marker per row, at the row's
\* coordinates.
NdviMarkers(features) ==
    [i \in 1..Len(features) |->
        [kind        |-> "CircleMarker",
         layer       |-> "current_ndvi",
         parcelle_id |-> features[i].parcelle_id,
         location    |-> <<features[i].latitude, features[i].longitude>>,
         popup       |-> CreateNdviPopup(features[i])]]

\* The parcels of a table, in the order groupby lists them.
GroupKeys(features) ==
    SortedParcels({ features[i].parcelle_id : i \in 1..Len(features) })

(***************************************************************************)
(* The dashboard: construction, layout, selection changes.                 *)
(***************************************************************************)
FeatureColumns ==
    {"parcelle_id", "date", "rendement_estime", "ndvi", "temperature", "stress_hydrique"}

\* The table prepare_features returns for a sequence of observations
\* <<parcel, date, measurement>>; pandas labels the rows 0, 1, 2, ...
FeatureTable(obs) ==
    [columns |-> FeatureColumns,
     rows    |-> [i \in 1..Len(obs) |->
                    [index            |-> i - 1,
                     parcelle_id      |-> obs[i][1],
                     date             |-> obs[i][2],
                     rendement_estime |-> obs[i][3].rendement_estime,
                     ndvi             |-> obs[i][3].ndvi,
                     temperature      |-> obs[i][3].temperature,
                     stress_hydrique  |-> obs[i][3].stress_hydrique]]]

\* Feature tables of the dashboard specification: rows in any order.
FeatureTables ==
    { FeatureTable(obs) :
        obs \in SeqsOf(Observations, 1, MaxRows) }

\* The monitoring table's parcel column: unsorted, with a repeated parcel.
MonitoringParcels == <<"B", "A", "C", "A">>

\* __init__ and create_data_sources, for the table the provider returned.
Constructed(features) ==
    /\ monitoring_data = MonitoringParcels
    /\ features_data = features
    /\ full_yield_source = ColumnDataSource(YieldData(features))
    /\ full_ndvi_source = ColumnDataSource(NdviData(features))
    /\ yield_source = EmptyDataSource(YieldData(features))
    /\ ndvi_source = EmptyDataSource(NdviData(features))
    /\ stress_source = NoSource
    /\ full_stress_source = NoSource
    /\ prediction_source = NoSource
    /\ select_value = NoSelection
    /\ phase = "constructed"

\* A table with parcels A and B whose rows of A carry the dates 3, 1, 2.
ExampleTable ==
    LET m5 == [rendement_estime |-> 5, ndvi |-> 2, temperature |-> 22, stress_hydrique |-> 34]
        m6 == [rendement_estime |-> 6, ndvi |-> 3, temperature |-> 20, stress_hydrique |-> 30]
    IN  FeatureTable(<< <<"A", 3, m5>>, <<"B", 1, m5>>, <<"A", 1, m6>>, <<"A", 2, m5>> >>)

\* Provider tables of the map while only the dashboard is exercised.
IdleMapFeatures == <<[parcelle_id |-> "A", latitude |-> 100000, longitude |-> 200000]>>

MapIdle == MapConstructed(<<>>, IdleMapFeatures, <<>>)

\* A table of parcel A with a yield of 0 t/ha at date 2 and 5 t/ha at date 1.
ZeroYieldTable ==
    LET m0 == [rendement_estime |-> 0, ndvi |-> 2, temperature |-> 22, stress_hydrique |-> 34]
        m5 == [rendement_estime |-> 5, ndvi |-> 2, temperature |-> 22, stress_hydrique |-> 34]
    IN  FeatureTable(<< <<"A", 2, m0>>, <<"A", 1, m5>> >>)

Init ==
    /\ \E features \in FeatureTables \cup {ExampleTable, ZeroYieldTable} :
          Constructed(features)
    /\ MapIdle

\* create_layout: the selector starts at the first option; the four plots are
\* created, create_stress_matrix among them.  Without a stress plot the
\* layout is None and nothing is shown.
create_layout ==
    /\ phase = "constructed"
    /\ get_parcelle_options(monitoring_data) # <<>>
    /\ select_value' = get_parcelle_options(monitoring_data)[1]
    /\ \E stress \in {CreateStressMatrix(features_data)} :
          /\ features_data' = stress.features_data
          /\ stress_source' = stress.stress_source
          /\ full_stress_source' = stress.full_stress_source
          /\ phase' = IF stress.plot THEN "laid_out" ELSE "no_layout"
    /\ prediction_source' = EmptyPredictionSource
    /\ UNCHANGED <<monitoring_data, full_yield_source, full_ndvi_source,
                   yield_source, ndvi_source>>
    /\ UNCHANGED mapVars

\* The selector's value changes to v: every callback registered with
\* js_on_change("value", ...) runs, in the order of registration.
SelectionChange(v) ==
    /\ phase \in {"laid_out", "interactive"}
    /\ select_value' = v
    /\ yield_source' = YieldCallback(yield_source, full_yield_source, v)
    /\ ndvi_source' = NdviCallback(ndvi_source, full_ndvi_source, v)
    /\ stress_source' = StressCallback(stress_source, full_stress_source, v)
    /\ \E draws \in [1..Len(MatchingIndices(full_yield_source, v, 1)) -> RandomDraws] :
          prediction_source' =
              PredictionCallback(prediction_source, full_yield_source, v, draws)
    /\ phase' = "interactive"
    /\ UNCHANGED <<monitoring_data, features_data, full_yield_source,
                   full_ndvi_source, full_stress_source>>
    /\ UNCHANGED mapVars

Next ==
    \/ create_layout
    \/ \E v \in Range(get_parcelle_options(monitoring_data)) : SelectionChange(v)

vars == <<dashVars, mapVars>>

Spec == Init /\ [][Next]_vars

(***************************************************************************)
(* The stress specification: the dashboard on feature tables that vary in  *)
(* temperature and water stress.                                           *)
(***************************************************************************)
StressMeasurements ==
    { [rendement_estime |-> 5, ndvi |-> 2, temperature |-> t, stress_hydrique |-> h] :
        t \in {-3, 20, 22}, h \in {-5, 20, 30, 34} }

StressObservations ==
    ({"A"} \X {1} \X StressMeasurements)
    \cup ({"B"} \X {1} \X OtherMeasurements)

\* A table whose three bins have 2, 4 and 8 rows.
CountsExampleTable ==
    LET m(t, h) == [rendement_estime |-> 5, ndvi |-> 2, temperature |-> t,
                    stress_hydrique |-> h]
        a == <<"A", 1, m(-3, 5)>>
        b == <<"A", 1, m(21, 20)>>
        c == <<"B", 1, m(22, 34)>>
    IN  FeatureTable(<<c, a, b, c, c, b, c, a, c, b, c, c, b, c>>)

StressTables ==
    { FeatureTable(obs) : obs \in SeqsOf(StressObservations, 1, MaxStressRows) }
    \cup {CountsExampleTable}

\* A table without the columns cols.
WithoutColumns(df, cols) ==
    [columns |-> df.columns \ cols,
     rows    |-> [i \in 1..Len(df.rows) |->
                    [c \in DOMAIN df.rows[i] \ cols |-> df.rows[i][c]]]]

\* Feature tables that lack the temperature column, the stress_hydrique
\* column, or both.
IncompleteTables ==
    { WithoutColumns(FeatureTable(obs), cols) :
        obs \in SeqsOf(StressObservations, 1, 1),
        cols \in { {"temperature"}, {"stress_hydrique"},
                   {"temperature", "stress_hydrique"} } }

InitStress ==
    /\ \E features \in StressTables \cup IncompleteTables : Constructed(features)
    /\ MapIdle

SpecStress == InitStress /\ [][Next]_vars

(***************************************************************************)
(* The map: trend estimation, base map, risk heat map.                     *)
(***************************************************************************)
\* The dashboard while only the map is exercised.
DashboardIdle ==
    Constructed(FeatureTable(<< <<"A", 1, [rendement_estime |-> 5, ndvi |-> 2,
                                          temperature |-> 22, stress_hydrique |-> 34]>> >>))

\* _calculate_yield_trend(parcelle_id), called for a parcel.
calculate_yield_trend(parcelle_id) ==
    /\ trend' = [parcelle_id |-> parcelle_id,
                 result |-> CalculateYieldTrend(yield_history, parcelle_id)]
    /\ UNCHANGED <<yield_history, map_features, risk_metrics, map, heat_data>>
    /\ UNCHANGED dashVars

\* create_base_map: a new map centred on the mean coordinates.  load_data,
\* prepare_features or a missing coordinate column may raise; the exception
\* is caught and self.map stays what it was.
create_base_map ==
    /\ map_features # <<>>
    /\ \E loaded \in BOOLEAN :
          map' = IF loaded /\ {"latitude", "longitude"} \subseteq MapColumns(map_features)
                 THEN [initialized |-> TRUE, layers |-> <<>>]
                 ELSE map
    /\ UNCHANGED <<yield_history, trend, map_features, risk_metrics, heat_data>>
    /\ UNCHANGED dashVars

\* add_risk_heatmap: without a base map the ValueError is caught and nothing
\* changes.  Otherwise heat_data is computed; HeatMap(...) rejects data that
\* holds a NaN (a ValueError, caught), else the heat map and the layer
\* control are added to the map.
add_risk_heatmap ==
    /\ Len(map.layers) + 2 <= MaxLayers
    /\ IF MapIsNone(map)
       THEN UNCHANGED mapVars
       ELSE \E rows \in {HeatmapRows(risk_metrics, map_features)} :
            \E jitter_lat \in [1..Len(rows) -> Jitters] :
            \E jitter_lon \in [1..Len(rows) -> Jitters] :
               /\ heat_data' = HeatData(rows, jitter_lat, jitter_lon)
               /\ map' = IF \E i \in 1..Len(rows) : IsNaN(heat_data'[i].normalized_risk)
                         THEN map
                         ELSE [map EXCEPT !.layers = @ \o <<[kind |-> "HeatMap"],
                                                            [kind |-> "LayerControl"]>>]
               /\ UNCHANGED <<yield_history, trend, map_features, risk_metrics>>
    /\ UNCHANGED dashVars

\* Yield-history tables: parcel A with records in three years, two of them in
\* 2020, and one record of parcel B.
HistoryDates ==
    { [year |-> 2020, month |-> 1], [year |-> 2020, month |-> 6],
      [year |-> 2021, month |-> 1], [year |-> 2022, month |-> 1] }

HistoryRows ==
    { [parcelle_id |-> "A", date |-> d, rendement_estime |-> v] :
        d \in HistoryDates, v \in {5, 6, 7} }
    \cup { [parcelle_id |-> "B", date |-> [year |-> 2021, month |-> 1],
            rendement_estime |-> 9] }

HistoryTables == SeqsOf(HistoryRows, 0, MaxHistory)

InitTrend ==
    /\ DashboardIdle
    /\ \E history \in HistoryTables : MapConstructed(history, IdleMapFeatures, <<>>)

NextTrend == \E parcelle_id \in Range(ParcelNames) : calculate_yield_trend(parcelle_id)

SpecTrend == InitTrend /\ [][NextTrend]_vars

\* Feature tables of the map: parcel A alone, or A (two rows) and B.
MapFeatureTables ==
    { IdleMapFeatures,
      <<[parcelle_id |-> "A", latitude |-> 100000, longitude |-> 200000],
        [parcelle_id |-> "B", latitude |-> 100100, longitude |-> 200100],
        [parcelle_id |-> "A", latitude |-> 100020, longitude |-> 200020]>> }

\* Risk-metrics tables: one row per parcel; parcel C has no feature row.
RiskRows ==
    { [parcelle_id |-> "A", avg_risk_index |-> v] : v \in {1, 2, 4, NaN} }
    \cup { [parcelle_id |-> "B", avg_risk_index |-> v] : v \in {1, 2, 4} }
    \cup { [parcelle_id |-> "C", avg_risk_index |-> 2] }

RiskTables ==
    { risk \in SeqsOf(RiskRows, 1, MaxRiskRows) :
        \A i, j \in 1..Len(risk) : risk[i].parcelle_id = risk[j].parcelle_id => i = j }

InitMap ==
    /\ DashboardIdle
    /\ \E features \in MapFeatureTables : \E risk \in RiskTables :
          MapConstructed(<<>>, features, risk)

NextMap == create_base_map \/ add_risk_heatmap

SpecMap == InitMap /\ [][NextMap]_vars

(***************************************************************************)
(* The layer specification: the base map and the three layers, called in   *)
(* any order, on feature tables that vary in coordinates, dates and crops. *)
(***************************************************************************)
\* add_yield_history_layer: without a base map, or with a required column
\* missing, the exception is caught and nothing changes.  Otherwise 'annee'
\* is added to the table prepare_features returned and one marker per parcel
\* with valid mean coordinates is added to the map.
add_yield_history_layer ==
    /\ IF MapIsNone(map)
       THEN UNCHANGED mapVars
       ELSE IF ~({"parcelle_id", "latitude", "longitude", "rendement_estime", "date"}
                  \subseteq MapColumns(map_features))
       THEN UNCHANGED mapVars
       ELSE \E features \in {WithAnnee(map_features)} :
            \E parcels \in {GroupKeys(features)} :
            \E markers \in {YieldMarkers(features, yield_history, parcels)} :
               /\ Len(map.layers) + Len(markers) <= MaxLayers
               /\ map_features' = features
               /\ trend' = IF parcels = <<>> THEN trend
                           ELSE [parcelle_id |-> parcels[Len(parcels)],
                                 result |-> CalculateYieldTrend(yield_history,
                                                                parcels[Len(parcels)])]
               /\ map' = [map EXCEPT !.layers = @ \o markers]
               /\ UNCHANGED <<yield_history, risk_metrics, heat_data>>
    /\ UNCHANGED dashVars

\* add_current_ndvi_layer: without a base map, or with a required column
\* missing, the exception is caught and nothing changes.  Otherwise one
\* marker per feature row is added to the map.
add_current_ndvi_layer ==
    /\ IF MapIsNone(map)
       THEN UNCHANGED mapVars
       ELSE IF ~({"parcelle_id", "latitude", "longitude", "ndvi", "culture"}
                  \subseteq MapColumns(map_features))
       THEN UNCHANGED mapVars
       ELSE /\ Len(map.layers) + Len(map_features) <= MaxLayers
            /\ map' = [map EXCEPT !.layers = @ \o NdviMarkers(map_features)]
            /\ UNCHANGED <<yield_history, trend, map_features, risk_metrics, heat_data>>
    /\ UNCHANGED dashVars

\* Largest number of rows of a feature table of the layer specification.
MaxMapRows == 2

\* A feature row of the layers; the yield recorded at a date is fixed.
LayerRow(parcelle_id, latitude, longitude, date, culture) ==
    [parcelle_id      |-> parcelle_id,
     latitude         |-> latitude,
     longitude        |-> longitude,
     date             |-> date,
     culture          |-> culture,
     rendement_estime |-> 5 + (date % 3),
     ndvi             |-> 5]

\* Rows dated by month: parcel A at 10 or 95 degrees of latitude, with two
\* dates in 2020 and one in 2021; parcel B at 10.01 or 95 degrees.
TimestampRows ==
    { LayerRow("A", lat, 200000, date, "wheat") :
        lat \in {100000, 950000}, date \in {202001, 202006, 202101} }
    \cup { LayerRow("B", lat, 200100, 202001, "wheat") : lat \in {100100, 950000} }

\* Rows dated by a year number, with the crop grown that year.
YearRows ==
    { LayerRow("A", lat, 200000, date, culture) :
        lat \in {100000, 950000}, date \in {2021, 2022}, culture \in {"wheat", "corn"} }

\* Parcels C, B, A in this order of rows; B's longitude is 185 degrees.
ThreeParcelTable ==
    << LayerRow("C", 100200, 200200, 202001, "wheat"),
       LayerRow("B", 100100, 1850000, 202001, "corn"),
       LayerRow("A", 100000, 200000, 202101, "corn") >>

LayerTables ==
    SeqsOf(TimestampRows, 1, MaxMapRows) \cup SeqsOf(YearRows, 1, MaxMapRows)
    \cup {ThreeParcelTable}

\* The provider's yield history and risk metrics of the layer specification.
LayerHistory ==
    << [parcelle_id |-> "A", date |-> [year |-> 2020, month |-> 1], rendement_estime |-> 5],
       [parcelle_id |-> "A", date |-> [year |-> 2021, month |-> 1], rendement_estime |-> 7] >>

LayerRisk ==
    << [parcelle_id |-> "B", avg_risk_index |-> 1],
       [parcelle_id |-> "C", avg_risk_index |-> 4] >>

InitLayers ==
    /\ DashboardIdle
    /\ \E features \in LayerTables : MapConstructed(LayerHistory, features, LayerRisk)

NextLayers ==
    \/ create_base_map
    \/ add_yield_history_layer
    \/ add_current_ndvi_layer
    \/ add_risk_heatmap

SpecLayers == InitLayers /\ [][NextLayers]_vars

(***************************************************************************)
(* Properties of the selection-change callbacks.                           *)
(***************************************************************************)
\* Positions of the rows of a full data source that belong to a parcel.
RowsOfParcel(full_data, parcel) ==
    { i \in 1..Len(full_data["parcelle_id"]) : full_data["parcelle_id"][i] = parcel }

\* A sequence of numbers is in ascending order.
Ascending(s) == \A j \in 1..(Len(s) - 1) : s[j] <= s[j + 1]

\* `filtered` holds, over the columns cols, exactly the rows of full_data at
\* the positions in S, each once, every column taken from the same row.
HoldsExactly(filtered, full_data, cols, S) ==
    /\ cols \subseteq DOMAIN filtered
    /\ \A key \in cols : Len(filtered[key]) = Cardinality(S)
    /\ \E pos \in [1..Cardinality(S) -> S] :
          /\ \A j, k \in 1..Cardinality(S) : pos[j] = pos[k] => j = k
          /\ \A key \in cols : \A j \in 1..Cardinality(S) :
                filtered[key][j] = full_data[key][pos[j]]

\* C1: once the selection-change handler has run, the yield-history dataset
\* holds exactly the full dataset's rows of the selected parcel, each once and
\* no other, every column (parcelle_id, date, rendement_estime) taken from the
\* same row, in ascending date order.
C1_YieldFilter ==
    phase = "interactive" =>
        /\ DOMAIN yield_source = YieldColumns
        /\ HoldsExactly(yield_source, full_yield_source, YieldColumns,
                        RowsOfParcel(full_yield_source, select_value))
        /\ Ascending(yield_source["date"])

\* C1 witness: parcel A is selected in a table that also has rows of B, A's
\* rows stand in the full dataset with dates 3, 1, 2 and are shown as 1, 2, 3.
C1_Witness ==
    /\ phase = "interactive"
    /\ select_value = "A"
    /\ full_yield_source["parcelle_id"] = <<"A", "B", "A", "A">>
    /\ full_yield_source["date"] = <<3, 1, 1, 2>>
    /\ yield_source["date"] = <<1, 2, 3>>
    /\ yield_source["rendement_estime"] = <<6, 5, 5>>

\* C2: after any sequence of selection changes each filtered dataset is what
\* its callback produces from the untouched initial source, the full dataset
\* and the current selection alone (so nothing of an earlier selection is
\* left, and repeating a selection changes nothing): the yield and NDVI
\* datasets hold rows of the selected parcel only, and the refilled columns
\* of the stress dataset have one entry per bin of the selected parcel.
C2_ReplaceNotAppend ==
    phase = "interactive" =>
        /\ yield_source = YieldCallback([c \in YieldColumns |-> <<>>],
                                        full_yield_source, select_value)
        /\ ndvi_source = NdviCallback([c \in NdviColumns |-> <<>>],
                                      full_ndvi_source, select_value)
        /\ stress_source = StressCallback(full_stress_source, full_stress_source,
                                          select_value)
        /\ \A j \in 1..Len(yield_source["parcelle_id"]) :
              yield_source["parcelle_id"][j] = select_value
        /\ \A j \in 1..Len(ndvi_source["parcelle_id"]) :
              ndvi_source["parcelle_id"][j] = select_value
        /\ \A key \in YieldColumns : Len(yield_source[key]) =
              Cardinality(RowsOfParcel(full_yield_source, select_value))
        /\ \A key \in NdviColumns : Len(ndvi_source[key]) =
              Cardinality(RowsOfParcel(full_ndvi_source, select_value))
        /\ \A key \in {"temp_bin", "stress_bin", "normalized_count"} :
              Len(stress_source[key]) =
              Cardinality(RowsOfParcel(full_stress_source, select_value))

\* C2 witness: B is selected while the full datasets also hold rows of A,
\* and only B's rows and bins are shown.
C2_Witness ==
    /\ phase = "interactive"
    /\ select_value = "B"
    /\ "A" \in Range(full_yield_source["parcelle_id"])
    /\ "A" \in Range(full_ndvi_source["parcelle_id"])
    /\ Len(yield_source["date"]) >= 2
    /\ Len(ndvi_source["date"]) >= 2
    /\ Len(stress_source["temp_bin"]) = 1
    /\ Len(full_stress_source["temp_bin"]) >= 2

\* C3: once the selection-change handler has run, the NDVI dataset's rows are
\* in ascending date order.
C3_NdviSortedByDate ==
    phase = "interactive" => Ascending(ndvi_source["date"])

\* C4: selecting a parcel with no row in the full dataset leaves the yield and
\* NDVI datasets with all their columns and no entry in any of them.
C4_AbsentParcelEmpty ==
    phase = "interactive" =>
        /\ (RowsOfParcel(full_yield_source, select_value) = {} =>
              /\ DOMAIN yield_source = YieldColumns
              /\ \A key \in YieldColumns : yield_source[key] = <<>>)
        /\ (RowsOfParcel(full_ndvi_source, select_value) = {} =>
              /\ DOMAIN ndvi_source = NdviColumns
              /\ \A key \in NdviColumns : ndvi_source[key] = <<>>)

\* C4 witness: the monitored parcel C, which has no feature row, is selected
\* while both full datasets hold rows; both filtered datasets are empty.
C4_Witness ==
    /\ phase = "interactive"
    /\ select_value = "C"
    /\ Len(full_yield_source["parcelle_id"]) >= 2
    /\ Len(full_ndvi_source["parcelle_id"]) >= 2
    /\ \A key \in YieldColumns : yield_source[key] = <<>>
    /\ \A key \in NdviColumns : ndvi_source[key] = <<>>

\* C5: after a selection change every column of the stress-matrix dataset has
\* the same length, the number of bins of the selected parcel, and every
\* parcelle_id in it is the selection.
C5_StressColumnsAligned ==
    phase = "interactive" =>
        /\ \A key \in DOMAIN stress_source :
              Len(stress_source[key]) =
              Cardinality(RowsOfParcel(full_stress_source, select_value))
        /\ \A j \in 1..Len(stress_source["parcelle_id"]) :
              stress_source["parcelle_id"][j] = select_value

(***************************************************************************)
(* Properties of the trend estimator.                                      *)
(***************************************************************************)
\* Positions of a parcel's records in the yield history, their calendar
\* years, and the yield of the first record of a year.
RecordsOf(parcelle_id) ==
    { i \in 1..Len(yield_history) : yield_history[i].parcelle_id = parcelle_id }

YearsOf(parcelle_id) ==
    { yield_history[i].date.year : i \in RecordsOf(parcelle_id) }

RetainedYield(parcelle_id, year) ==
    LET first == CHOOSE i \in RecordsOf(parcelle_id) :
                    /\ yield_history[i].date.year = year
                    /\ \A j \in RecordsOf(parcelle_id) :
                          yield_history[j].date.year = year => i <= j
    IN  yield_history[first].rendement_estime

\* The sum of f[x] over the x in S.
RECURSIVE SumOver(_, _)
SumOver(S, f) ==
    IF S = {} THEN 0
    ELSE LET x == CHOOSE z \in S : TRUE IN f[x] + SumOver(S \ {x}, f)

\* C6: a parcel whose history, one record per calendar year kept, has fewer
\* than 2 distinct years or the same yield in every retained year gets
\* exactly slope 0, intercept 0, mean relative variation 0.
C6_DegenerateTrendIsZero ==
    trend.parcelle_id # NoSelection =>
        LET p == trend.parcelle_id
        IN  (\/ Cardinality(YearsOf(p)) < 2
             \/ \A y1, y2 \in YearsOf(p) : RetainedYield(p, y1) = RetainedYield(p, y2))
            => trend.result = ZeroTrend

\* C7: for a parcel with at least 2 distinct years and non-identical yields,
\* the trend is the least-squares line through one (year, yield) point per
\* distinct year of that parcel's records (the year's first record):
\* slope = cov/var, intercept = mean(yield) - slope * mean(year), variation =
\* slope / mean(yield), or 0 when mean(yield) is 0; years 2020, 2021, 2022
\* with yields 5, 6, 7 give slope 1, intercept -2015, variation 1/6.
C7_TrendFit ==
    trend.parcelle_id # NoSelection =>
        LET p      == trend.parcelle_id
            years  == YearsOf(p)
            n      == Cardinality(years)
            Yld(y) == RetainedYield(p, y)
            sx     == SumOver(years, [y \in years |-> y])
            sy     == SumOver(years, [y \in years |-> Yld(y)])
            cov    == n * SumOver(years, [y \in years |-> y * Yld(y)]) - sx * sy
            var    == n * SumOver(years, [y \in years |-> y * y]) - sx * sx
            slope  == trend.result.slope
            icpt   == trend.result.intercept
            vari   == trend.result.variation_moyenne
        IN  (/\ n >= 2
             /\ Cardinality({ yield_history[i].rendement_estime : i \in RecordsOf(p) }) >= 2)
            =>
            /\ slope.den > 0 /\ icpt.den > 0 /\ vari.den > 0
            /\ slope.num * var = slope.den * cov
            /\ icpt.num * n * slope.den = icpt.den * (sy * slope.den - slope.num * sx)
            /\ IF sy = 0 THEN vari.num = 0
               ELSE vari.num * slope.den * sy = vari.den * slope.num * n
            /\ (/\ years = {2020, 2021, 2022}
                /\ Yld(2020) = 5 /\ Yld(2021) = 6 /\ Yld(2022) = 7)
               => /\ slope = [num |-> 1, den |-> 1]
                  /\ icpt = [num |-> -2015, den |-> 1]
                  /\ vari = [num |-> 1, den |-> 6]

\* C7 witness: the trend of parcel A was computed from a history with two
\* records in 2020, of which the first counts, and the line through
\* (2020, 5), (2021, 7) was returned.
C7_Witness ==
    /\ trend.parcelle_id = "A"
    /\ Len(yield_history) = 3
    /\ \A i \in 1..3 : yield_history[i].parcelle_id = "A"
    /\ yield_history[1].date.year = 2020 /\ yield_history[1].rendement_estime = 5
    /\ yield_history[2].date.year = 2020 /\ yield_history[2].rendement_estime = 6
    /\ yield_history[3].date.year = 2021 /\ yield_history[3].rendement_estime = 7
    /\ trend.result.slope = [num |-> 2, den |-> 1]
    /\ trend.result.intercept = [num |-> -4035, den |-> 1]
    /\ trend.result.variation_moyenne = [num |-> 1, den |-> 3]

(***************************************************************************)
(* Properties of the stress matrix.                                        *)
(***************************************************************************)
\* C8: for every feature row temp_bin is the largest multiple of 5 not above
\* the temperature and stress_bin is the largest multiple of 0.1 not above
\* stress_hydrique (both in hundredths here), boundary values included.
C8_FloorBinning ==
    phase \in {"laid_out", "interactive"} =>
        \A i \in 1..Len(features_data.rows) :
            LET r == features_data.rows[i]
            IN  /\ r["temp_bin"] % 5 = 0
                /\ r["temp_bin"] <= r["temperature"]
                /\ r["temperature"] < r["temp_bin"] + 5
                /\ r["stress_bin"].c % 10 = 0
                /\ r["stress_bin"].c <= r["stress_hydrique"]
                /\ r["stress_hydrique"] < r["stress_bin"].c + 10

\* C9: the stress matrix has exactly one bin per (parcelle_id, temp_bin,
\* stress_bin) combination of the feature table, the bin's count is the
\* number of feature rows of the combination, normalized_count is count
\* divided by the largest count of all bins, so it lies in (0, 1] and is 1
\* for some bin; counts 2, 4, 8 normalize to 1/4, 1/2, 1.
C9_StressMatrix ==
    phase \in {"laid_out", "interactive"} =>
        LET F      == full_stress_source
            rows   == features_data.rows
            n      == Len(F["count"])
            Key(j) == <<F["parcelle_id"][j], F["temp_bin"][j], F["stress_bin"][j]>>
            RowsIn(j) == { i \in 1..Len(rows) : BinKey(rows[i]) = Key(j) }
            largest == CHOOSE m \in Range(F["count"]) :
                          \A j \in 1..n : F["count"][j] <= m
        IN  /\ \A key \in DOMAIN F : Len(F[key]) = n
            /\ { Key(j) : j \in 1..n } = { BinKey(rows[i]) : i \in 1..Len(rows) }
            /\ \A j, k \in 1..n : Key(j) = Key(k) => j = k
            /\ \A j \in 1..n :
                  /\ F["count"][j] = Cardinality(RowsIn(j))
                  /\ F["normalized_count"][j].den > 0
                  /\ F["normalized_count"][j].num * largest
                        = F["count"][j] * F["normalized_count"][j].den
                  /\ F["normalized_count"][j].num > 0
                  /\ F["normalized_count"][j].num <= F["normalized_count"][j].den
            /\ \E j \in 1..n :
                  F["normalized_count"][j].num = F["normalized_count"][j].den
            /\ F["count"] = <<2, 4, 8>> =>
                  F["normalized_count"] = << [num |-> 1, den |-> 4],
                                             [num |-> 1, den |-> 2],
                                             [num |-> 1, den |-> 1] >>

\* C9 witness: a matrix of three bins with counts 2, 4, 8 over two parcels,
\* built from 14 feature rows and normalized to 1/4, 1/2, 1.
C9_Witness ==
    /\ phase \in {"laid_out", "interactive"}
    /\ Len(features_data.rows) = 14
    /\ full_stress_source["parcelle_id"] = <<"A", "A", "B">>
    /\ full_stress_source["count"] = <<2, 4, 8>>
    /\ full_stress_source["normalized_count"] = << [num |-> 1, den |-> 4],
                                                   [num |-> 1, den |-> 2],
                                                   [num |-> 1, den |-> 1] >>

(***************************************************************************)
(* Properties of the risk heat map.                                        *)
(***************************************************************************)
\* C10: when all avg_risk_index values entering the heat map are equal every
\* weight is 0.1 and none is NaN; otherwise every weight is
\* 0.1 + (value - min)/(max - min) * 0.9 and lies in [0.1, 1.0].
C10_HeatWeights ==
    LET rows   == HeatmapRows(risk_metrics, map_features)
        values == { rows[k].avg_risk_index : k \in 1..Len(rows) }
        lo     == CHOOSE m \in values : \A v \in values : m <= v
        hi     == CHOOSE m \in values : \A v \in values : m >= v
    IN  \A i \in 1..Len(heat_data) :
            LET w == heat_data[i].normalized_risk
                v == rows[i].avg_risk_index
            IN  IF lo = hi
                THEN w = [num |-> 1, den |-> 10]
                ELSE /\ w.den > 0
                     /\ w.num * 10 * (hi - lo) = w.den * ((hi - lo) + 9 * (v - lo))
                     /\ w.den <= 10 * w.num
                     /\ w.num <= w.den

(***************************************************************************)
(* Properties of the map's layers and popups.                              *)
(***************************************************************************)
\* Positions of a parcel's rows in the map's feature table.
FeatureRowsOf(parcelle_id) ==
    { i \in 1..Len(map_features) : map_features[i].parcelle_id = parcelle_id }

\* The parcel's mean latitude lies in [-90, 90] and its mean longitude in
\* [-180, 180], by the sums of its rows' coordinates.
MeanInRange(parcelle_id) ==
    LET S   == FeatureRowsOf(parcelle_id)
        n   == Cardinality(S)
        lat == SumOver(S, [i \in S |-> map_features[i].latitude])
        lon == SumOver(S, [i \in S |-> map_features[i].longitude])
    IN  /\ -900000 * n <= lat /\ lat <= 900000 * n
        /\ -1800000 * n <= lon /\ lon <= 1800000 * n

\* The yield-history markers among a sequence of things added to a map.
IsYieldMarker(x) == x.kind = "CircleMarker" /\ x.layer = "yield_history"

YieldMarkersOnMap == { k \in 1..Len(map.layers) : IsYieldMarker(map.layers[k]) }

\* C12: the recent-crop list of a parcel's popup has one entry 'date: crop'
\* per distinct (crop, date) pair of the parcel's history, most recent date
\* first; the history [(2021, wheat), (2022, corn)] gives
\* ['2022: corn', '2021: wheat'].
C12_RecentCrops ==
    \A k \in YieldMarkersOnMap :
        LET S     == FeatureRowsOf(map.layers[k].parcelle_id)
            pairs == { <<map_features[i].culture, map_features[i].date>> : i \in S }
            crops == map.layers[k].popup.recent_crops
            n     == Len(crops)
        IN  /\ n = Cardinality(pairs)
            /\ \E pos \in [1..n -> pairs] :
                  /\ \A i, j \in 1..n : pos[i] = pos[j] => i = j
                  /\ \A j \in 1..n :
                        crops[j] = DateText(pos[j][2]) \o ": " \o pos[j][1]
                  /\ \A j \in 1..(n - 1) : pos[j][2] >= pos[j + 1][2]
            /\ pairs = { <<"wheat", 2021>>, <<"corn", 2022>> }
                  => crops = <<"2022: corn", "2021: wheat">>

\* C12 witness: a parcel's rows are (2021, wheat), (2022, corn) in this
\* order and its popup lists 2022: corn, then 2021: wheat.
C12_Witness ==
    /\ Len(map_features) = 2
    /\ \A i \in 1..2 : map_features[i].parcelle_id = "A"
    /\ map_features[1].date = 2021 /\ map_features[1].culture = "wheat"
    /\ map_features[2].date = 2022 /\ map_features[2].culture = "corn"
    /\ \E k \in YieldMarkersOnMap :
          map.layers[k].popup.recent_crops = <<"2022: corn", "2021: wheat">>

\* The calendar year of a date.
CalendarYear(date) == IF date < 10000 THEN date ELSE date \div 100

\* C13: the yield-history list of every popup the yield-history layer made
\* has at most one entry per calendar year, and its entries are in ascending
\* chronological order.
C13_OneYieldPerYear ==
    \A k \in YieldMarkersOnMap :
        LET entries == map.layers[k].popup.history
        IN  /\ \A i, j \in 1..Len(entries) :
                  CalendarYear(entries[i].year) = CalendarYear(entries[j].year) => i = j
            /\ \A j \in 1..(Len(entries) - 1) : entries[j].year <= entries[j + 1].year

(***************************************************************************)
(* Properties of the prediction dataset, of missing input, of the          *)
(* provider's tables and of the initial selection.                         *)
(***************************************************************************)
\* The prediction dataset has one row per full-dataset row of the selected
\* parcel, with the row's date and its rendement_estime as actual_yield.
PredictionRows ==
    LET P == prediction_source
        F == full_yield_source
        S == RowsOfParcel(F, select_value)
        n == Cardinality(S)
    IN  /\ DOMAIN P = {"date", "actual_yield", "predicted_yield"}
        /\ Len(P["date"]) = n
        /\ Len(P["actual_yield"]) = n
        /\ Len(P["predicted_yield"]) = n
        /\ \E pos \in [1..n -> S] :
              /\ \A j, k \in 1..n : pos[j] = pos[k] => j = k
              /\ \A j \in 1..n :
                    /\ P["date"][j] = F["date"][pos[j]]
                    /\ P["actual_yield"][j] = F["rendement_estime"][pos[j]]

\* predicted = actual * (1 + 0.05 * (U - 0.5)) for some U in [0, 1), U taken
\* in thousandths: predicted = actual * (19500 + u) / 20000.
PredictedFromDraw(actual, predicted) ==
    /\ predicted.den = 20000
    /\ \E u \in 0..999 : predicted.num = actual * (19500 + u)

\* C14 as stated: after every selection change the prediction dataset has
\* one row per full-dataset row of the selected parcel, its three columns
\* have equal length, actual_yield is the row's rendement_estime,
\* predicted_yield = actual_yield * (1 + 0.05 * (U - 0.5)) for a U in [0, 1),
\* and for non-negative actual_yield
\* 0.975 * actual_yield <= predicted_yield < 1.025 * actual_yield.
C14_PredictionStrictBound ==
    phase = "interactive" =>
        /\ PredictionRows
        /\ \A j \in 1..Len(prediction_source["predicted_yield"]) :
              LET actual    == prediction_source["actual_yield"][j]
                  predicted == prediction_source["predicted_yield"][j]
              IN  /\ PredictedFromDraw(actual, predicted)
                  /\ actual >= 0 =>
                        /\ 975 * actual * predicted.den <= 1000 * predicted.num
                        /\ 1000 * predicted.num < 1025 * actual * predicted.den

\* C14, amended: as above, with the bounds
\* 0.975 * actual_yield <= predicted_yield <= 1.025 * actual_yield for
\* non-negative actual_yield (both are equalities when actual_yield is 0).
C14_PredictionFilter ==
    phase = "interactive" =>
        /\ PredictionRows
        /\ \A j \in 1..Len(prediction_source["predicted_yield"]) :
              LET actual    == prediction_source["actual_yield"][j]
                  predicted == prediction_source["predicted_yield"][j]
              IN  /\ PredictedFromDraw(actual, predicted)
                  /\ actual >= 0 =>
                        /\ 975 * actual * predicted.den <= 1000 * predicted.num
                        /\ 1000 * predicted.num <= 1025 * actual * predicted.den
                  /\ actual = 0 => predicted.num = 0

\* C14 witness: parcel A is selected; its rows have the yields 0 and 5, in
\* the order of the full dataset, predicted as 0 and, with the draw 0.999,
\* as 5 * 1.02495.
C14_Witness ==
    /\ phase = "interactive"
    /\ select_value = "A"
    /\ prediction_source["date"] = <<2, 1>>
    /\ prediction_source["actual_yield"] = <<0, 5>>
    /\ prediction_source["predicted_yield"][1].num = 0
    /\ prediction_source["predicted_yield"][2] = [num |-> 102495, den |-> 20000]

\* C15: when the feature table lacks the temperature or the stress_hydrique
\* column, the stress-matrix builder returns nothing (no layout is made),
\* creates no stress data source, and adds no bin column to the feature
\* table, whose columns and rows stay as they were.
C15_MissingStressInput ==
    (/\ phase # "constructed"
     /\ \/ "temperature" \notin features_data.columns
        \/ "stress_hydrique" \notin features_data.columns)
    => /\ phase = "no_layout"
       /\ stress_source = NoSource
       /\ full_stress_source = NoSource
       /\ features_data.columns \cap {"temp_bin", "stress_bin"} = {}
       /\ features_data.columns \subseteq FeatureColumns
       /\ \A i \in 1..Len(features_data.rows) :
             DOMAIN features_data.rows[i] = features_data.columns \cup {"index"}

\* C15 witness: create_layout has run on a table that has the temperature
\* column and lacks stress_hydrique; there is no layout and no stress source.
C15_Witness ==
    /\ phase = "no_layout"
    /\ "temperature" \in features_data.columns
    /\ "stress_hydrique" \notin features_data.columns
    /\ features_data.rows # <<>>
    /\ stress_source = NoSource

\* C16: no step changes the feature table prepare_features handed out to the
\* dashboard or to the map, nor the provider's yield_history: columns,
\* column names and cell values stay as they were handed out.
C16_NoWriteBack ==
    [][ /\ features_data' = features_data
        /\ map_features' = map_features
        /\ yield_history' = yield_history ]_vars

\* The first parcel of the monitoring table in sorted order.
FirstParcel ==
    CHOOSE p \in Range(monitoring_data) :
        \A q \in Range(monitoring_data) : Rank(p) <= Rank(q)

\* C17: once the layout exists, before any selection change the selector's
\* value is the first parcel in sorted order, and in every state, the
\* initial one included, the yield, NDVI, stress and prediction datasets
\* hold exactly the rows of their full dataset that belong to the current
\* selection.
C17_SelectionConsistency ==
    phase \in {"laid_out", "interactive"} =>
        /\ phase = "laid_out" => select_value = FirstParcel
        /\ HoldsExactly(yield_source, full_yield_source, YieldColumns,
                        RowsOfParcel(full_yield_source, select_value))
        /\ HoldsExactly(ndvi_source, full_ndvi_source, NdviColumns,
                        RowsOfParcel(full_ndvi_source, select_value))
        /\ HoldsExactly(stress_source, full_stress_source,
                        {"temp_bin", "stress_bin", "normalized_count"},
                        RowsOfParcel(full_stress_source, select_value))
        /\ PredictionRows

(***************************************************************************)
(* Order of the calls on a map.                                            *)
(***************************************************************************)
\* The map create_base_map makes.
FreshMap == [initialized |-> TRUE, layers |-> <<>>]

\* C18: the map holds a layer only if a base map was created; a step taken
\* while there is no base map either creates one, with no layer, or leaves
\* the map, the feature table and the heat data alone; and a step taken on
\* an existing map leaves it as it is, extends its layers, or replaces it by
\* a new base map - it never takes the base map away.
C18_BaseMapBeforeLayers ==
    /\ [](map.layers # <<>> => map.initialized)
    /\ [][ /\ ~map.initialized =>
                \/ map' = FreshMap
                \/ /\ map' = map
                   /\ map_features' = map_features
                   /\ heat_data' = heat_data
           /\ map.initialized =>
                \/ map' = FreshMap
                \/ /\ map'.initialized
                   /\ Len(map'.layers) >= Len(map.layers)
                   /\ SubSeq(map'.layers, 1, Len(map.layers)) = map.layers ]_vars

\* C18 witness: a base map holds the markers of two parcels, added by the
\* yield-history layer, and after them the heat map and the layer control.
C18_Witness ==
    /\ map.initialized
    /\ Len(map.layers) = 4
    /\ IsYieldMarker(map.layers[1])
    /\ IsYieldMarker(map.layers[2])
    /\ map.layers[3].kind = "HeatMap"
    /\ map.layers[4].kind = "LayerControl"

====
